---- MODULE Spec2Model ----
(***************************************************************************)
(* Model of the drawdown event-detection and simulation engine of          *)
(* bnb_spike_backtest.py (compute_rolling_high, detect_drawdowns,          *)
(* backtest) and of the merged single-pass engine of bnb_optimizer.py      *)
(* (run_strategy).                                                         *)
(*                                                                         *)
(* Python list indices are kept 0-based (At reads a list the way Python    *)
(* does).  Python floats are modelled as exact rationals <<n, d>> in       *)
(* lowest terms with d > 0, so rounding error is abstracted away and a     *)
(* float division by zero is a raised ZeroDivisionError.                   *)
(***************************************************************************)
EXTENDS Integers, Sequences, FiniteSets, TLC

\* ------------------------------------------------------------------------
\* Bounds of the model
\* ------------------------------------------------------------------------
MaxLen == 4       \* longest candle series explored
MaxWindow == 2    \* largest rolling window (in candles) explored
MaxHold == 2      \* largest max_hold_candles explored
LongLen == 5      \* longest candle series of the long-run specification

\* ------------------------------------------------------------------------
\* Program constants
\* ------------------------------------------------------------------------
\* module constants of bnb_spike_backtest.py; run_strategy takes the same
\* quantities as its trigger_pct, tp_pct and sl_pct arguments and is run here
\* with these values (all three are points of the optimizer's grid)
TRIGGER_PCT == 10
TAKE_PROFIT_PCT == 10
STOP_LOSS_PCT == 7
INITIAL_CAPITAL == 100

\* ------------------------------------------------------------------------
\* Float arithmetic, as exact rationals
\* ------------------------------------------------------------------------
Abs(x) == IF x < 0 THEN -x ELSE x

RECURSIVE GCD(_, _)
GCD(a, b) == IF b = 0 THEN a ELSE GCD(b, a % b)

\* n / d in lowest terms with a positive denominator (d # 0)
Rat(n, d) ==
    LET g == GCD(Abs(n), Abs(d))
        s == IF d < 0 THEN -1 ELSE 1
    IN  <<(s * n) \div g, (s * d) \div g>>

R(x) == <<x, 1>>

\* the operations reduce by common factors before they multiply
RAdd(a, b) ==
    LET g == GCD(a[2], b[2])
    IN  Rat(a[1] * (b[2] \div g) + b[1] * (a[2] \div g), (a[2] \div g) * b[2])
RNeg(a) == <<-a[1], a[2]>>
RSub(a, b) == RAdd(a, RNeg(b))
RMul(a, b) ==
    LET g == GCD(Abs(a[1]), b[2])
        h == GCD(Abs(b[1]), a[2])
    IN  IF a[1] = 0 \/ b[1] = 0 THEN <<0, 1>>
        ELSE <<(a[1] \div g) * (b[1] \div h), (a[2] \div h) * (b[2] \div g)>>
RInv(b) == IF b[1] < 0 THEN <<-b[2], -b[1]>> ELSE <<b[2], b[1]>>
RDiv(a, b) == RMul(a, RInv(b))
RLt(a, b) ==
    LET g == GCD(a[2], b[2])
    IN  a[1] * (b[2] \div g) < b[1] * (a[2] \div g)
RLe(a, b) ==
    LET g == GCD(a[2], b[2])
    IN  a[1] * (b[2] \div g) <= b[1] * (a[2] \div g)
RGt(a, b) == RLt(b, a)
RGe(a, b) == RLe(b, a)

\* ------------------------------------------------------------------------
\* Python list access and range helpers
\* ------------------------------------------------------------------------
At(s, i) == IF i < 0 THEN s[Len(s) + i + 1] ELSE s[i + 1]
Min(a, b) == IF a < b THEN a ELSE b
Max(a, b) == IF a > b THEN a ELSE b

\* ------------------------------------------------------------------------
\* Inputs: candles as loaded (high, low, close), prices in whole units
\* ------------------------------------------------------------------------
Bar(h, l, c) == [high |-> h, low |-> l, close |-> c]
Flat == Bar(100, 100, 100)
Dip == Bar(85, 85, 85)
Both == Bar(100, 79, 85)
Slide == Bar(85, 79, 79)
Zero == Bar(0, 0, 0)
Bars == {Flat, Dip, Both, Slide, Zero}

LongBars == {Flat, Dip, Both, Zero}
BadWindows == {-1, 0}

SeqsUpTo(S, n) == UNION {[1..k -> S] : k \in 1..n}
PositionPcts == {1, 100}

VARIABLES
    candles,          \* the bar series
    window,           \* WINDOW_CANDLES / window_candles
    max_hold_candles, \* MAX_HOLD_DAYS * 24 * 60 // CANDLE_MINUTES
    pos_pct,          \* POSITION_PCT / pos_pct
    pc,               \* which function of the pipeline is running
    r_i, dq, rolling_high,                 \* compute_rolling_high
    d_i, cooldown_until, events, d_err,    \* detect_drawdowns
    b_k, capital, trades, b_err,           \* backtest
    c_j, running_peak, m_max_dd,           \* main: capital curve
    s_i, s_cooldown_until, s_capital, num_trades, wins, losses,
    max_dd, peak_capital, s_err,           \* run_strategy
    s_log                                  \* run_strategy: locals of each trade taken

vars == <<candles, window, max_hold_candles, pos_pct, pc,
          r_i, dq, rolling_high,
          d_i, cooldown_until, events, d_err,
          b_k, capital, trades, b_err,
          c_j, running_peak, m_max_dd,
          s_i, s_cooldown_until, s_capital, num_trades, wins, losses,
          max_dd, peak_capital, s_err, s_log>>

inputs == <<candles, window, max_hold_candles, pos_pct>>
rollingVars == <<r_i, dq, rolling_high>>
detectVars == <<d_i, cooldown_until, events, d_err>>
backtestVars == <<b_k, capital, trades, b_err>>
curveVars == <<c_j, running_peak, m_max_dd>>
strategyVars == <<s_i, s_cooldown_until, s_capital, num_trades, wins, losses,
                  max_dd, peak_capital, s_err, s_log>>

n == Len(candles)

\* ------------------------------------------------------------------------
\* compute_rolling_high
\* ------------------------------------------------------------------------
\* mutant of EvictFront: the window is one candle too long
RECURSIVE EvictFrontLate(_, _, _)
EvictFrontLate(q, i, w) ==
    IF q # <<>> /\ Head(q) < i - w
    THEN EvictFrontLate(Tail(q), i, w)
    ELSE q

\* while dq and dq[0] < i - window + 1: dq.popleft()
RECURSIVE EvictFront(_, _, _)
EvictFront(q, i, w) ==
    IF q # <<>> /\ Head(q) < i - w + 1
    THEN EvictFront(Tail(q), i, w)
    ELSE q

\* mutant of PopBack: a candle as high as the new one is kept
RECURSIVE PopBackStrict(_, _, _)
PopBackStrict(q, cs, i) ==
    IF q # <<>> /\ At(cs, q[Len(q)]).high < At(cs, i).high
    THEN PopBackStrict(SubSeq(q, 1, Len(q) - 1), cs, i)
    ELSE q

\* while dq and candles[dq[-1]]["high"] <= candles[i]["high"]: dq.pop()
RECURSIVE PopBack(_, _, _)
PopBack(q, cs, i) ==
    IF q # <<>> /\ At(cs, q[Len(q)]).high <= At(cs, i).high
    THEN PopBack(SubSeq(q, 1, Len(q) - 1), cs, i)
    ELSE q

\* one iteration of `for i in range(n)`
RollingStep ==
    /\ pc = "rolling"
    /\ r_i < n
    /\ LET q == Append(PopBack(EvictFront(dq, r_i, window), candles, r_i), r_i)
       IN  /\ dq' = q
           /\ rolling_high' = [rolling_high EXCEPT ![r_i + 1] = At(candles, Head(q)).high]
    /\ r_i' = r_i + 1
    /\ UNCHANGED <<inputs, curveVars, pc, detectVars, backtestVars, strategyVars>>

\* return rolling_high
RollingReturn ==
    /\ pc = "rolling"
    /\ r_i = n
    /\ pc' = "detect"
    /\ UNCHANGED <<inputs, curveVars, rollingVars, detectVars, backtestVars, strategyVars>>

\* ------------------------------------------------------------------------
\* Shared price arithmetic of detect_drawdowns and run_strategy
\* ------------------------------------------------------------------------
NoneIdx == -1   \* exit_idx = None

\* mutant of Peak: the reference includes the candidate candle itself
PeakLookahead(rh, i) == R(At(rh, i))

\* peak = rolling_high[i - 1]
Peak(rh, i) == R(At(rh, i - 1))

\* drop_pct = ((peak - close) / peak) * 100      (peak # 0)
DropPct(peak, close) == RMul(RDiv(RSub(peak, close), peak), R(100))

\* tp_price = buy_price * (1 + TAKE_PROFIT_PCT / 100)
TpPrice(buy_price, tp_pct) == RMul(buy_price, RAdd(R(1), Rat(tp_pct, 100)))

\* sl_price = buy_price * (1 - STOP_LOSS_PCT / 100)
SlPrice(buy_price, sl_pct) == RMul(buy_price, RSub(R(1), Rat(sl_pct, 100)))

\* mutant of ScanStart: the entry candle itself is tested
ScanStartAtEntry(i) == i

\* for k in range(i + 1, scan_end): the first candle scanned
ScanStart(i) == i + 1

\* mutant of ScanEnd: the last candle of the holding period is not scanned
ScanEndShort(i, mh, len) == Min(i + mh, len)

\* scan_end = min(i + max_hold_candles + 1, n)
ScanEnd(i, mh, len) == Min(i + mh + 1, len)

\* exit_idx = min(i + max_hold_candles, n - 1)
TimeoutIdx(i, mh, len) == Min(i + mh, len - 1)

\* mutant of CooldownAfter: the exit candle is open to a new trigger
CooldownAfterEarly(exit_idx) == exit_idx - 1

\* cooldown_until = exit_idx
CooldownAfter(exit_idx) == exit_idx

\* mutant of Invest: the percentage is not divided by 100
InvestNoPercent(cap, pct) == RMul(cap, R(pct))

\* mutant of Invest: a fixed stake, sized on the initial capital
InvestInitial(cap, pct) == RMul(R(INITIAL_CAPITAL), Rat(pct, 100))

\* invest = capital * (POSITION_PCT / 100)
Invest(cap, pct) == RMul(cap, Rat(pct, 100))

\* if invest < 1.0
BelowMinOrder(invest) == RLt(invest, R(1))

\* mutant of CapitalAfter: the stake is never debited
CapitalAfterNoDebit(cap, invest, revenue) == RAdd(cap, revenue)

\* capital -= invest ... capital += revenue
CapitalAfter(cap, invest, revenue) == RAdd(RSub(cap, invest), revenue)

\* ------------------------------------------------------------------------
\* detect_drawdowns
\* ------------------------------------------------------------------------
\* for k in range(i + 1, scan_end): track the bottom, test SL, then TP
RECURSIVE D_Scan(_, _, _, _, _, _, _)
D_Scan(cs, k, scan_end, sl_price, tp_price, bottom_price, bottom_idx) ==
    IF k >= scan_end
    THEN [exit_idx |-> NoneIdx, exit_reason |-> "None",
          bottom_price |-> bottom_price, bottom_idx |-> bottom_idx]
    ELSE LET lowk == R(At(cs, k).low)
             highk == R(At(cs, k).high)
             lower == RLt(lowk, bottom_price)
             bp == IF lower THEN lowk ELSE bottom_price
             bi == IF lower THEN k ELSE bottom_idx
         IN  IF RLe(lowk, sl_price)
             THEN [exit_idx |-> k, exit_reason |-> "SL",
                   bottom_price |-> bp, bottom_idx |-> bi]
             ELSE IF RGe(highk, tp_price)
             THEN [exit_idx |-> k, exit_reason |-> "TP",
                   bottom_price |-> bp, bottom_idx |-> bi]
             ELSE D_Scan(cs, k + 1, scan_end, sl_price, tp_price, bp, bi)

\* the event appended for a trigger at index i
D_Event(cs, rh, i, mh) ==
    LET peak == Peak(rh, i)
        close == R(At(cs, i).close)
        drop_pct == DropPct(peak, close)
        buy_price == close
        tp_price == TpPrice(buy_price, TAKE_PROFIT_PCT)
        sl_price == SlPrice(buy_price, STOP_LOSS_PCT)
        scan == D_Scan(cs, ScanStart(i), ScanEnd(i, mh, Len(cs)),
                       sl_price, tp_price, close, i)
        timeout == scan.exit_idx = NoneIdx
        exit_idx == IF timeout THEN TimeoutIdx(i, mh, Len(cs)) ELSE scan.exit_idx
        exit_reason == IF timeout THEN "TIMEOUT" ELSE scan.exit_reason
        sell_price == IF exit_reason = "TP" THEN tp_price
                      ELSE IF exit_reason = "SL" THEN sl_price
                      ELSE R(At(cs, exit_idx).close)
    IN  [idx |-> i,
         time |-> i,
         peak_price |-> peak,
         buy_price |-> buy_price,
         bottom_price |-> scan.bottom_price,
         bottom_idx |-> scan.bottom_idx,
         exit_idx |-> exit_idx,
         sell_price |-> sell_price,
         exit_reason |-> exit_reason,
         trigger_drop_pct |-> drop_pct,
         max_drop_pct |-> DropPct(peak, scan.bottom_price)]

D_Candidate == pc = "detect" /\ d_i < n /\ ~(d_i <= cooldown_until)

\* if i <= cooldown_until: continue
DetectCooldown ==
    /\ pc = "detect"
    /\ d_i < n
    /\ d_i <= cooldown_until
    /\ d_i' = d_i + 1
    /\ UNCHANGED <<inputs, curveVars, pc, rollingVars, cooldown_until, events, d_err,
                   backtestVars, strategyVars>>

\* drop_pct = ((peak - close) / peak) * 100 with peak = 0.0
DetectRaise ==
    /\ D_Candidate
    /\ Peak(rolling_high, d_i) = R(0)
    /\ d_err' = "ZeroDivisionError"
    /\ pc' = "strategy"
    /\ UNCHANGED <<inputs, curveVars, rollingVars, d_i, cooldown_until, events,
                   backtestVars, strategyVars>>

\* if drop_pct < min_drop_pct: continue
DetectNoTrigger ==
    /\ D_Candidate
    /\ Peak(rolling_high, d_i) # R(0)
    /\ RLt(DropPct(Peak(rolling_high, d_i), R(At(candles, d_i).close)), R(TRIGGER_PCT))
    /\ d_i' = d_i + 1
    /\ UNCHANGED <<inputs, curveVars, pc, rollingVars, cooldown_until, events, d_err,
                   backtestVars, strategyVars>>

\* found a trigger: resolve its exit, append the event, start the cooldown
DetectTrigger ==
    /\ D_Candidate
    /\ Peak(rolling_high, d_i) # R(0)
    /\ ~RLt(DropPct(Peak(rolling_high, d_i), R(At(candles, d_i).close)), R(TRIGGER_PCT))
    /\ LET e == D_Event(candles, rolling_high, d_i, max_hold_candles)
       IN  /\ events' = Append(events, e)
           /\ cooldown_until' = CooldownAfter(e.exit_idx)
    /\ d_i' = d_i + 1
    /\ UNCHANGED <<inputs, curveVars, pc, rollingVars, d_err, backtestVars, strategyVars>>

\* return events
DetectReturn ==
    /\ pc = "detect"
    /\ d_i >= n
    /\ pc' = "backtest"
    /\ UNCHANGED <<inputs, curveVars, rollingVars, detectVars, backtestVars, strategyVars>>

\* ------------------------------------------------------------------------
\* backtest, called by main on sorted(events, key=idx)
\* ------------------------------------------------------------------------
\* insertion of e into a list sorted by idx, after the elements with equal idx
RECURSIVE InsertByIdx(_, _)
InsertByIdx(s, e) ==
    IF s = <<>> THEN <<e>>
    ELSE IF e.idx < Head(s).idx THEN <<e>> \o s
    ELSE <<Head(s)>> \o InsertByIdx(Tail(s), e)

\* by_time = sorted(events, key=lambda e: e["idx"])
RECURSIVE SortByIdx(_)
SortByIdx(s) ==
    IF s = <<>> THEN <<>>
    ELSE InsertByIdx(SortByIdx(SubSeq(s, 1, Len(s) - 1)), s[Len(s)])

by_time == SortByIdx(events)

\* the trade appended for event e with `cap` in hand   (buy_price # 0)
B_Trade(e, cap, pct) ==
    LET invest == Invest(cap, pct)
        qty == RDiv(invest, e.buy_price)
        revenue == RMul(qty, e.sell_price)
        profit == RSub(revenue, invest)
    IN  [time |-> e.time,
         peak |-> e.peak_price,
         buy_price |-> e.buy_price,
         sell_price |-> e.sell_price,
         trigger_drop |-> e.trigger_drop_pct,
         max_drop |-> e.max_drop_pct,
         qty |-> qty,
         invested |-> invest,
         revenue |-> revenue,
         profit |-> profit,
         pnl_pct |-> RMul(RDiv(profit, invest), R(100)),
         capital_after |-> CapitalAfter(cap, invest, revenue),
         exit_reason |-> e.exit_reason]

B_Current == pc = "backtest" /\ b_k < Len(by_time)

\* if invest < 1.0: break   (followed by return trades, capital)
BacktestBreak ==
    /\ B_Current
    /\ BelowMinOrder(Invest(capital, pos_pct))
    /\ pc' = "curve"
    /\ UNCHANGED <<inputs, curveVars, rollingVars, detectVars, backtestVars, strategyVars>>

\* qty = invest / buy_price with buy_price = 0.0
BacktestRaise ==
    /\ B_Current
    /\ ~BelowMinOrder(Invest(capital, pos_pct))
    /\ At(by_time, b_k).buy_price = R(0)
    /\ b_err' = "ZeroDivisionError"
    /\ pc' = "strategy"
    /\ UNCHANGED <<inputs, curveVars, rollingVars, detectVars, b_k, capital, trades,
                   strategyVars>>

\* mutant of BacktestTrade: the event is marked as closed in place
BacktestTradeMarking ==
    /\ B_Current
    /\ ~BelowMinOrder(Invest(capital, pos_pct))
    /\ At(by_time, b_k).buy_price # R(0)
    /\ LET t == B_Trade(At(by_time, b_k), capital, pos_pct)
       IN  /\ capital' = t.capital_after
           /\ trades' = Append(trades, t)
    /\ b_k' = b_k + 1
    /\ events' = [events EXCEPT ![b_k + 1].exit_reason = "CLOSED"]
    /\ UNCHANGED <<inputs, curveVars, pc, rollingVars, d_i, cooldown_until,
                   d_err, b_err, strategyVars>>

\* one iteration of `for e in events` that realises a trade
BacktestTrade ==
    /\ B_Current
    /\ ~BelowMinOrder(Invest(capital, pos_pct))
    /\ At(by_time, b_k).buy_price # R(0)
    /\ LET t == B_Trade(At(by_time, b_k), capital, pos_pct)
       IN  /\ capital' = t.capital_after
           /\ trades' = Append(trades, t)
    /\ b_k' = b_k + 1
    /\ UNCHANGED <<inputs, curveVars, pc, rollingVars, detectVars, b_err, strategyVars>>

\* return trades, capital
BacktestReturn ==
    /\ pc = "backtest"
    /\ b_k >= Len(by_time)
    /\ pc' = "curve"
    /\ UNCHANGED <<inputs, curveVars, rollingVars, detectVars, backtestVars, strategyVars>>

\* ------------------------------------------------------------------------
\* Drawdown bookkeeping, written alike in main and in run_strategy
\* ------------------------------------------------------------------------
\* mutant of PeakAfter: the peak stays at its first value
PeakAfterFrozen(peak, cap) == peak

\* if capital > peak_capital: peak_capital = capital
PeakAfter(peak, cap) == IF RGt(cap, peak) THEN cap ELSE peak

\* dd = ((peak_capital - capital) / peak_capital) * 100
Drawdown(peak, cap) == RMul(RDiv(RSub(peak, cap), peak), R(100))

\* mutant of MaxDdAfter: the latest drawdown replaces the largest one
MaxDdAfterLatest(dd, max_so_far) == dd

\* if dd > max_dd: max_dd = dd
MaxDdAfter(dd, max_so_far) == IF RGt(dd, max_so_far) THEN dd ELSE max_so_far

\* ------------------------------------------------------------------------
\* main: summary of the trades returned by backtest
\* ------------------------------------------------------------------------
\* winners = [t for t in trades if t["profit"] > 0]
winners == SelectSeq(trades, LAMBDA t : RGt(t.profit, R(0)))

\* losers = [t for t in trades if t["profit"] <= 0]
losers == SelectSeq(trades, LAMBDA t : RLe(t.profit, R(0)))

\* capitals = [INITIAL_CAPITAL] + [t["capital_after"] for t in trades]
capitals ==
    <<R(INITIAL_CAPITAL)>> \o [k \in 1..Len(trades) |-> trades[k].capital_after]

\* `if trades:` is false, the capital curve is not computed
CurveSkip ==
    /\ pc = "curve"
    /\ trades = <<>>
    /\ pc' = "strategy"
    /\ UNCHANGED <<inputs, curveVars, rollingVars, detectVars, backtestVars,
                   strategyVars>>

\* one iteration of `for c in capitals`
CurveStep ==
    /\ pc = "curve"
    /\ trades # <<>>
    /\ c_j < Len(capitals)
    /\ LET c == At(capitals, c_j)
           peak == PeakAfter(running_peak, c)
       IN  /\ running_peak' = peak
           /\ m_max_dd' = MaxDdAfter(Drawdown(peak, c), m_max_dd)
    /\ c_j' = c_j + 1
    /\ UNCHANGED <<inputs, pc, rollingVars, detectVars, backtestVars,
                   strategyVars>>

\* the loop is over, max drawdown is printed
CurveReturn ==
    /\ pc = "curve"
    /\ trades # <<>>
    /\ c_j >= Len(capitals)
    /\ pc' = "strategy"
    /\ UNCHANGED <<inputs, curveVars, rollingVars, detectVars, backtestVars,
                   strategyVars>>

\* for k in range(i + 1, scan_end): test SL, then TP; defaults are the timeout
RECURSIVE S_Scan(_, _, _, _, _, _)
S_Scan(cs, k, scan_end, sl_price, tp_price, timeout_idx) ==
    IF k >= scan_end
    THEN [exit_reason |-> "TIMEOUT", sell_price |-> R(0), exit_idx |-> timeout_idx]
    ELSE IF RLe(R(At(cs, k).low), sl_price)
    THEN [exit_reason |-> "SL", sell_price |-> sl_price, exit_idx |-> k]
    ELSE IF RGe(R(At(cs, k).high), tp_price)
    THEN [exit_reason |-> "TP", sell_price |-> tp_price, exit_idx |-> k]
    ELSE S_Scan(cs, k + 1, scan_end, sl_price, tp_price, timeout_idx)

\* the locals of one entry at index i with `cap` in hand   (buy_price # 0)
S_Trade(cs, rh, i, mh, cap, pct) ==
    LET peak == Peak(rh, i)
        close == R(At(cs, i).close)
        buy_price == close
        tp_price == TpPrice(buy_price, TAKE_PROFIT_PCT)
        sl_price == SlPrice(buy_price, STOP_LOSS_PCT)
        invest == Invest(cap, pct)
        scan == S_Scan(cs, ScanStart(i), ScanEnd(i, mh, Len(cs)), sl_price, tp_price,
                       TimeoutIdx(i, mh, Len(cs)))
        sell_price == IF scan.exit_reason = "TIMEOUT"
                      THEN R(At(cs, scan.exit_idx).close)
                      ELSE scan.sell_price
        qty == RDiv(invest, buy_price)
        revenue == RMul(qty, sell_price)
    IN  [idx |-> i,
         peak_price |-> peak,
         trigger_drop_pct |-> DropPct(peak, close),
         buy_price |-> buy_price,
         exit_idx |-> scan.exit_idx,
         exit_reason |-> scan.exit_reason,
         sell_price |-> sell_price,
         invested |-> invest,
         qty |-> qty,
         revenue |-> revenue,
         profit |-> RSub(revenue, invest),
         capital_after |-> CapitalAfter(cap, invest, revenue)]

S_Candidate == pc = "strategy" /\ s_i < n /\ ~(s_i <= s_cooldown_until)

S_Triggered ==
    /\ S_Candidate
    /\ Peak(rolling_high, s_i) # R(0)
    /\ ~RLt(DropPct(Peak(rolling_high, s_i), R(At(candles, s_i).close)), R(TRIGGER_PCT))

\* if i <= cooldown_until: continue
StrategyCooldown ==
    /\ pc = "strategy"
    /\ s_i < n
    /\ s_i <= s_cooldown_until
    /\ s_i' = s_i + 1
    /\ UNCHANGED <<inputs, curveVars, pc, rollingVars, detectVars, backtestVars,
                   s_cooldown_until, s_capital, num_trades, wins, losses,
                   max_dd, peak_capital, s_err, s_log>>

\* drop_pct with peak = 0.0, or qty = invest / buy_price with buy_price = 0.0
StrategyRaise ==
    /\ \/ S_Candidate /\ Peak(rolling_high, s_i) = R(0)
       \/ /\ S_Triggered
          /\ ~BelowMinOrder(Invest(s_capital, pos_pct))
          /\ At(candles, s_i).close = 0
    /\ s_err' = "ZeroDivisionError"
    /\ pc' = "done"
    /\ UNCHANGED <<inputs, curveVars, rollingVars, detectVars, backtestVars,
                   s_i, s_cooldown_until, s_capital, num_trades, wins, losses,
                   max_dd, peak_capital, s_log>>

\* if drop_pct < trigger_pct: continue
StrategyNoTrigger ==
    /\ S_Candidate
    /\ Peak(rolling_high, s_i) # R(0)
    /\ RLt(DropPct(Peak(rolling_high, s_i), R(At(candles, s_i).close)), R(TRIGGER_PCT))
    /\ s_i' = s_i + 1
    /\ UNCHANGED <<inputs, curveVars, pc, rollingVars, detectVars, backtestVars,
                   s_cooldown_until, s_capital, num_trades, wins, losses,
                   max_dd, peak_capital, s_err, s_log>>

\* if invest < 1.0: continue
StrategySkip ==
    /\ S_Triggered
    /\ BelowMinOrder(Invest(s_capital, pos_pct))
    /\ s_i' = s_i + 1
    /\ UNCHANGED <<inputs, curveVars, pc, rollingVars, detectVars, backtestVars,
                   s_cooldown_until, s_capital, num_trades, wins, losses,
                   max_dd, peak_capital, s_err, s_log>>

\* mutant of IsWin: a trade that breaks even counts as a win
IsWinOrEven(profit) == RGe(profit, R(0))

\* if profit > 0: wins += 1, else: losses += 1
IsWin(profit) == RGt(profit, R(0))

\* entry, exit scan, P&L, win/loss and drawdown bookkeeping, cooldown
StrategyTrade ==
    /\ S_Triggered
    /\ ~BelowMinOrder(Invest(s_capital, pos_pct))
    /\ At(candles, s_i).close # 0
    /\ LET t == S_Trade(candles, rolling_high, s_i, max_hold_candles,
                        s_capital, pos_pct)
           new_peak == PeakAfter(peak_capital, t.capital_after)
           dd == Drawdown(new_peak, t.capital_after)
       IN  /\ s_capital' = t.capital_after
           /\ num_trades' = num_trades + 1
           /\ wins' = IF IsWin(t.profit) THEN wins + 1 ELSE wins
           /\ losses' = IF IsWin(t.profit) THEN losses ELSE losses + 1
           /\ peak_capital' = new_peak
           /\ max_dd' = MaxDdAfter(dd, max_dd)
           /\ s_cooldown_until' = CooldownAfter(t.exit_idx)
           /\ s_log' = Append(s_log, t)
    /\ s_i' = s_i + 1
    /\ UNCHANGED <<inputs, curveVars, pc, rollingVars, detectVars, backtestVars, s_err>>

\* return the result record
StrategyReturn ==
    /\ pc = "strategy"
    /\ s_i >= n
    /\ pc' = "done"
    /\ UNCHANGED <<inputs, curveVars, rollingVars, detectVars, backtestVars, strategyVars>>

\* the locals of every function before its first statement
Start ==
    /\ pc = "rolling"
    /\ r_i = 0
    /\ dq = <<>>
    /\ rolling_high = [j \in 1..Len(candles) |-> 0]
    /\ d_i = window
    /\ cooldown_until = -1
    /\ events = <<>>
    /\ d_err = "none"
    /\ b_k = 0
    /\ capital = R(INITIAL_CAPITAL)
    /\ trades = <<>>
    /\ b_err = "none"
    /\ c_j = 0
    /\ running_peak = R(INITIAL_CAPITAL)
    /\ m_max_dd = R(0)
    /\ s_i = window
    /\ s_cooldown_until = -1
    /\ s_capital = R(INITIAL_CAPITAL)
    /\ num_trades = 0
    /\ wins = 0
    /\ losses = 0
    /\ max_dd = R(0)
    /\ peak_capital = R(INITIAL_CAPITAL)
    /\ s_err = "none"
    /\ s_log = <<>>

Init ==
    /\ candles \in SeqsUpTo(Bars, MaxLen)
    /\ window \in 1..MaxWindow
    /\ max_hold_candles \in 1..MaxHold
    /\ pos_pct \in PositionPcts
    /\ Start

Next ==
    \/ RollingStep
    \/ RollingReturn
    \/ DetectCooldown
    \/ DetectRaise
    \/ DetectNoTrigger
    \/ DetectTrigger
    \/ DetectReturn
    \/ BacktestBreak
    \/ BacktestRaise
    \/ BacktestTrade
    \/ BacktestReturn
    \/ CurveSkip
    \/ CurveStep
    \/ CurveReturn
    \/ StrategyCooldown
    \/ StrategyRaise
    \/ StrategyNoTrigger
    \/ StrategySkip
    \/ StrategyTrade
    \/ StrategyReturn

Spec == Init /\ [][Next]_vars

\* longer series over fewer candle shapes: room for two complete trades
InitLong ==
    /\ candles \in SeqsUpTo(LongBars, LongLen)
    /\ window \in 1..MaxWindow
    /\ max_hold_candles \in 1..MaxHold
    /\ pos_pct \in PositionPcts
    /\ Start

SpecLong == InitLong /\ [][Next]_vars

\* the pipeline called with a window below 1
InitBadWindow ==
    /\ candles \in SeqsUpTo(Bars, MaxLen)
    /\ window \in BadWindows
    /\ max_hold_candles \in 1..MaxHold
    /\ pos_pct \in PositionPcts
    /\ Start

SpecBadWindow == InitBadWindow /\ [][Next]_vars

\* ------------------------------------------------------------------------
\* Properties
\* ------------------------------------------------------------------------
\* the largest high over the candle indices lo..hi, by exhaustive comparison
BruteMaxHigh(cs, lo, hi) ==
    CHOOSE v \in {At(cs, m).high : m \in lo..hi} :
        \A m \in lo..hi : At(cs, m).high <= v

\* C1: compute_rolling_high returns a list as long as the series, and every
\* entry i it has filled in is the maximum high over the trailing window
\* max(0, i-window+1) .. i.
C1_RollingHighIsWindowMax ==
    /\ Len(rolling_high) = Len(candles)
    /\ \A i \in 0..(r_i - 1) :
          At(rolling_high, i) = BruteMaxHigh(candles, Max(0, i - window + 1), i)

\* a finished computation in which the window has slid past the series maximum
C1_Witness ==
    /\ pc # "rolling"
    /\ window >= 2
    /\ Len(candles) > window
    /\ At(rolling_high, Len(candles) - 1) < At(rolling_high, 0)

\* C2: in the events of one detection pass, and in the trades run_strategy
\* takes, a later one triggers strictly after every earlier one's exit index.
C2_NonOverlap ==
    /\ \A a, b \in 1..Len(events) :
          a < b => events[b].idx > events[a].exit_idx
    /\ \A a, b \in 1..Len(s_log) :
          a < b => s_log[b].idx > s_log[a].exit_idx

\* both engines have taken a second position after the first one was closed
C2_Witness ==
    /\ Len(events) >= 2
    /\ Len(s_log) >= 2
    /\ events[1].exit_idx > events[1].idx

\* C3 (as claimed): every event, wherever it triggers, exits strictly after
\* its entry index and at most max_hold_candles after it.
C3_ExitBound ==
    /\ \A k \in 1..Len(events) :
          /\ events[k].idx < events[k].exit_idx
          /\ events[k].exit_idx <= events[k].idx + max_hold_candles
    /\ \A k \in 1..Len(s_log) :
          /\ s_log[k].idx < s_log[k].exit_idx
          /\ s_log[k].exit_idx <= s_log[k].idx + max_hold_candles

\* stop-loss and take-profit levels of an entry at buy_price
StopLevel(buy_price) == RMul(buy_price, Rat(100 - STOP_LOSS_PCT, 100))
ProfitLevel(buy_price) == RMul(buy_price, Rat(100 + TAKE_PROFIT_PCT, 100))
HitsStop(k, buy_price) == RLe(R(At(candles, k).low), StopLevel(buy_price))
HitsProfit(k, buy_price) == RGe(R(At(candles, k).high), ProfitLevel(buy_price))

\* C4 (as claimed): when the candle a position exits at meets both the
\* stop-loss and the take-profit level, the exit is a stop loss at the
\* stop-loss price.
ExitPriority(e) ==
    (HitsStop(e.exit_idx, e.buy_price) /\ HitsProfit(e.exit_idx, e.buy_price))
        => (e.exit_reason = "SL" /\ e.sell_price = StopLevel(e.buy_price))

C4_StopLossFirst ==
    /\ \A k \in 1..Len(events) : ExitPriority(events[k])
    /\ \A k \in 1..Len(s_log) : ExitPriority(s_log[k])

\* C5: every event carries one outcome with reason TP, SL or TIMEOUT; it is
\* TIMEOUT exactly when no candle of idx+1 .. min(idx+max_hold, n-1) meets a
\* level, and then the exit price is the close of candle min(idx+max_hold, n-1).
HorizonEnd(e) == Min(e.idx + max_hold_candles, Len(candles) - 1)

TimeoutRule(e) ==
    /\ e.exit_reason \in {"TP", "SL", "TIMEOUT"}
    /\ (e.exit_reason = "TIMEOUT") <=>
          ~\E k \in (e.idx + 1)..HorizonEnd(e) :
               HitsStop(k, e.buy_price) \/ HitsProfit(k, e.buy_price)
    /\ (e.exit_reason = "TIMEOUT") =>
          /\ e.exit_idx = HorizonEnd(e)
          /\ e.sell_price = R(At(candles, HorizonEnd(e)).close)

C5_TimeoutIffNoHit ==
    /\ \A k \in 1..Len(events) : TimeoutRule(events[k])
    /\ \A k \in 1..Len(s_log) : TimeoutRule(s_log[k])

\* in both engines a position held over two candles met a level only on the
\* last candle of its holding period
C5_Witness ==
    /\ max_hold_candles >= 2
    /\ \E k \in 1..Len(events) :
          /\ events[k].exit_reason # "TIMEOUT"
          /\ events[k].exit_idx = events[k].idx + max_hold_candles
    /\ \E k \in 1..Len(s_log) :
          /\ s_log[k].exit_reason # "TIMEOUT"
          /\ s_log[k].exit_idx = s_log[k].idx + max_hold_candles

\* C6: a candidate index (window <= i < n, not under cooldown) that the pass
\* has examined is an event exactly when the drop of close[i] below
\* rolling_high[i-1] is at least TRIGGER_PCT percent, and the event records
\* that reference and that drop; a flat 100 series whose candle `window`
\* closes at 85 gives one event, there, with reference 100 and drop 15.
UnderCooldown(i) ==
    \E k \in 1..Len(events) : events[k].idx < i /\ i <= events[k].exit_idx

DropAtLeast(ref, close, pct) ==
    IF ref > 0 THEN (ref - close) * 100 >= pct * ref
               ELSE (ref - close) * 100 <= pct * ref

C6_TriggerRule ==
    /\ \A i \in window..(d_i - 1) :
          (~UnderCooldown(i) /\ At(rolling_high, i - 1) # 0) =>
              ((\E k \in 1..Len(events) : events[k].idx = i)
                  <=> DropAtLeast(At(rolling_high, i - 1), At(candles, i).close,
                                  TRIGGER_PCT))
    /\ \A k \in 1..Len(events) :
          LET i == events[k].idx
              ref == At(rolling_high, i - 1)
          IN  /\ window <= i /\ i < Len(candles)
              /\ events[k].peak_price = R(ref)
              /\ events[k].buy_price = R(At(candles, i).close)
              /\ events[k].trigger_drop_pct = Rat((ref - At(candles, i).close) * 100, ref)
    /\ ( /\ pc \notin {"rolling", "detect"}
         /\ Len(candles) = window + 1
         /\ \A j \in 0..(window - 1) : At(candles, j) = Flat
         /\ At(candles, window).close = 85 )
       => ( /\ Len(events) = 1
            /\ events[1].idx = window
            /\ events[1].peak_price = R(100)
            /\ events[1].trigger_drop_pct = R(15) )

\* the flat-then-85 scenario has been detected, with a reference that differs
\* from the rolling high at the trigger candle itself
C6_Witness ==
    /\ pc \notin {"rolling", "detect"}
    /\ window = 2
    /\ candles = <<Flat, Flat, Dip>>
    /\ Len(events) = 1
    /\ events[1].peak_price = R(100)
    /\ events[1].trigger_drop_pct = R(15)

\* C7: every trade has quantity = invested / entry price, proceeds =
\* quantity * exit price, profit = proceeds - invested and capital_after =
\* capital_before - invested + proceeds, capital_before being the previous
\* trade's capital_after (the initial capital for the first); the running
\* capital is the last trade's capital_after, and trades are in entry order.
CapitalBefore(log, k) ==
    IF k = 1 THEN R(INITIAL_CAPITAL) ELSE log[k - 1].capital_after

Conserves(log, k) ==
    LET t == log[k]
    IN  /\ RMul(t.qty, t.buy_price) = t.invested
        /\ t.revenue = RMul(t.qty, t.sell_price)
        /\ t.profit = RSub(t.revenue, t.invested)
        /\ RAdd(t.capital_after, t.invested) = RAdd(CapitalBefore(log, k), t.revenue)

RunningCapital(log) ==
    IF log = <<>> THEN R(INITIAL_CAPITAL) ELSE log[Len(log)].capital_after

C7_CapitalConservation ==
    /\ \A k \in 1..Len(trades) : Conserves(trades, k)
    /\ \A k \in 1..Len(s_log) : Conserves(s_log, k)
    /\ capital = RunningCapital(trades)
    /\ s_capital = RunningCapital(s_log)
    /\ \A a, b \in 1..Len(trades) : a < b => trades[a].time < trades[b].time
    /\ \A a, b \in 1..Len(s_log) : a < b => s_log[a].idx < s_log[b].idx
    /\ Len(s_log) = num_trades

\* both engines have realised two trades, the first at a loss
C7_Witness ==
    /\ Len(trades) >= 2
    /\ Len(s_log) >= 2
    /\ RLt(trades[1].profit, R(0))
    /\ RLt(s_log[1].profit, R(0))

\* position_pct percent of the capital is below the minimum order of 1.0
Starved(cap) == RLt(RMul(cap, Rat(pos_pct, 100)), R(1))

\* no step records a trade or changes the capital once the capital is starved
NoTradeOnceStarved ==
    /\ Starved(capital) => (capital' = capital /\ trades' = trades)
    /\ Starved(s_capital) =>
          (s_capital' = s_capital /\ num_trades' = num_trades /\ s_log' = s_log)

C8_NoTradeOnceStarved == [][NoTradeOnceStarved]_vars

\* run_strategy has passed a triggering candidate without trading: a candidate
\* past the cooldown that triggered and left no trade was skipped for capital
SkippedForCapital ==
    /\ Starved(s_capital)
    /\ \E j \in window..(s_i - 1) :
          /\ j > s_cooldown_until
          /\ Peak(rolling_high, j) # R(0)
          /\ ~RLt(DropPct(Peak(rolling_high, j), R(At(candles, j).close)),
                  R(TRIGGER_PCT))

\* backtest has broken out of its loop with events left
BrokeForCapital ==
    /\ pc \in {"curve", "strategy", "done"}
    /\ d_err = "none"
    /\ Starved(capital)
    /\ Len(trades) < Len(events)

\* C8: once position_pct percent of the capital is below the minimum order
\* of 1.0 at some event, no step of backtest or of run_strategy records a
\* trade or changes the capital, and the pass returns the trades recorded so
\* far and the final capital, that is, it does not end in an error.
C8_InsufficientCapitalHalts ==
    /\ [][NoTradeOnceStarved]_vars
    /\ [](BrokeForCapital => b_err = "none")
    /\ [](SkippedForCapital => s_err = "none")

\* C9: each trade invests position_pct percent of the capital left by the
\* previous trade (of the initial capital for the first trade only).
Compounds(log, k) ==
    log[k].invested = RMul(CapitalBefore(log, k), Rat(pos_pct, 100))

C9_CompoundingStake ==
    /\ \A k \in 1..Len(trades) : Compounds(trades, k)
    /\ \A k \in 1..Len(s_log) : Compounds(s_log, k)

\* a second trade, after a losing first one, stakes less than the first did
C9_Witness ==
    /\ Len(trades) >= 2
    /\ Len(s_log) >= 2
    /\ pos_pct = 100
    /\ RLt(trades[1].profit, R(0))
    /\ RLt(trades[2].invested, R(INITIAL_CAPITAL))
    /\ RLt(s_log[2].invested, R(INITIAL_CAPITAL))

\* C10 (as claimed): a candidate whose reference rolling_high[i-1] is zero or
\* negative makes the pass fail with InvalidState.
C10_InvalidStateOnBadReference ==
    [][ /\ (D_Candidate /\ At(rolling_high, d_i - 1) <= 0)
            => (d_err' = "InvalidState" /\ events' = events)
        /\ (S_Candidate /\ At(rolling_high, s_i - 1) <= 0)
            => (s_err' = "InvalidState" /\ s_log' = s_log)
      ]_vars

\* C11 (as claimed): with a window below 1 compute_rolling_high processes no
\* candle and returns no result.
C11_BadWindowRejected ==
    window < 1 => (pc = "rolling" /\ r_i = 0)

\* C12 (as claimed): the last candle of the series is never an event, since
\* no candle after it can be scanned.
C12_NoEventOnLastCandle ==
    /\ \A k \in 1..Len(events) : events[k].idx < Len(candles) - 1
    /\ \A k \in 1..Len(s_log) : s_log[k].idx < Len(candles) - 1

\* C13: the maximum drawdown is 0 before the first trade is folded in, is
\* never negative and never decreases, in run_strategy and in main.
C13_MaxDrawdownMonotone ==
    /\ [](/\ RGe(max_dd, R(0))
          /\ RGe(m_max_dd, R(0))
          /\ (num_trades = 0 => max_dd = R(0))
          /\ (c_j <= 1 => m_max_dd = R(0)))
    /\ [][RGe(max_dd', max_dd) /\ RGe(m_max_dd', m_max_dd)]_vars

\* both engines have recovered from a drawdown: the current drawdown is
\* below the maximum
C13_Witness ==
    /\ pc = "done"
    /\ num_trades >= 2
    /\ c_j = Len(capitals)
    /\ RLt(RSub(peak_capital, s_capital), RMul(max_dd, RDiv(peak_capital, R(100))))
    /\ RLt(RSub(running_peak, capital), RMul(m_max_dd, RDiv(running_peak, R(100))))

\* C14: after every trade the peak is the largest of the initial capital and
\* the capital_after values so far, and the maximum drawdown is the largest
\* of the per-trade drawdowns, each taken against the peak that already
\* includes that trade.
RatMax(S) == CHOOSE x \in S : \A y \in S : RLe(y, x)

\* caps[1..k], a list of capital observations
PeakOver(caps, k) == RatMax({R(INITIAL_CAPITAL)} \cup {caps[j] : j \in 1..k})

DrawdownAt(caps, k) ==
    RSub(R(100), RMul(RDiv(caps[k], PeakOver(caps, k)), R(100)))

MaxDrawdownOver(caps, k) ==
    RatMax({R(0)} \cup {DrawdownAt(caps, j) : j \in 1..k})

AfterCapitals == [k \in 1..Len(s_log) |-> s_log[k].capital_after]

C14_PeakAndDrawdown ==
    /\ peak_capital = PeakOver(AfterCapitals, Len(s_log))
    /\ max_dd = MaxDrawdownOver(AfterCapitals, Len(s_log))
    /\ running_peak = PeakOver(capitals, c_j)
    /\ m_max_dd = MaxDrawdownOver(capitals, c_j)

\* in both engines the peak rose above the initial capital and a later
\* trade fell below that peak
C14_Witness ==
    /\ pc = "done"
    /\ c_j = Len(capitals)
    /\ RGt(peak_capital, R(INITIAL_CAPITAL)) /\ RGt(max_dd, R(0))
    /\ RGt(running_peak, R(INITIAL_CAPITAL)) /\ RGt(m_max_dd, R(0))

\* C15: compute_rolling_high, detect_drawdowns and run_strategy never change
\* the candles, the detection passes never change the rolling high, and
\* backtest never changes the event list or an event in it.
C15_InputsNotMutated ==
    [][ /\ pc \in {"rolling", "detect", "strategy"} => candles' = candles
        /\ pc \in {"detect", "strategy"} => rolling_high' = rolling_high
        /\ pc = "backtest" => events' = events
      ]_vars

\* every stage has run to its end on a series with events and trades
C15_Witness ==
    /\ pc = "done"
    /\ Len(events) >= 1
    /\ Len(trades) >= 1
    /\ Len(s_log) >= 1

\* C16: an exit by stop loss or take profit happens at the first candle of
\* idx+1 .. min(idx+max_hold, n-1) that meets either level; the entry candle
\* is not tested.
FirstHit(e) ==
    e.exit_reason \in {"SL", "TP"} =>
        /\ e.exit_idx \in (e.idx + 1)..HorizonEnd(e)
        /\ HitsStop(e.exit_idx, e.buy_price) \/ HitsProfit(e.exit_idx, e.buy_price)
        /\ \A k \in (e.idx + 1)..(e.exit_idx - 1) :
              ~HitsStop(k, e.buy_price) /\ ~HitsProfit(k, e.buy_price)

C16_FirstHitExit ==
    /\ \A k \in 1..Len(events) : FirstHit(events[k])
    /\ \A k \in 1..Len(s_log) : FirstHit(s_log[k])

\* a position whose entry candle meets the stop level was held over a
\* candle that met no level and closed by the one after it, in both engines
HeldThenHit(e) ==
    /\ e.exit_reason \in {"SL", "TP"}
    /\ e.exit_idx = e.idx + 2
    /\ HitsStop(e.idx, e.buy_price)

C16_Witness ==
    /\ \E k \in 1..Len(events) : HeldThenHit(events[k])
    /\ \E k \in 1..Len(s_log) : HeldThenHit(s_log[k])

\* C17: once compute_rolling_high has processed index i, the deque is not
\* empty, ends with i, holds strictly increasing indices of i-window+1 .. i
\* (so at most `window` of them) whose highs strictly decrease.
C17_DequeInvariant ==
    r_i >= 1 =>
        LET i == r_i - 1
        IN  /\ dq # <<>>
            /\ dq[Len(dq)] = i
            /\ Len(dq) <= window
            /\ \A a \in 1..Len(dq) : i - window + 1 <= dq[a] /\ dq[a] <= i
            /\ \A a \in 1..(Len(dq) - 1) :
                  /\ dq[a] < dq[a + 1]
                  /\ At(candles, dq[a]).high > At(candles, dq[a + 1]).high

\* the deque holds as many indices as the window allows, more than one
C17_Witness ==
    /\ r_i >= 2
    /\ window >= 2
    /\ Len(dq) = window

\* C18: when several candles of the trailing window share the maximum high,
\* the front of the deque is the latest of them.
WindowOf(i) == Max(0, i - window + 1)..i

TopIndices(i) ==
    {m \in WindowOf(i) :
        At(candles, m).high = BruteMaxHigh(candles, Max(0, i - window + 1), i)}

C18_LatestAmongEqualMaxima ==
    r_i >= 1 =>
        \A m \in TopIndices(r_i - 1) : m <= Head(dq)

\* two candles of the window share the maximum and the later one is in front
C18_Witness ==
    /\ r_i >= 2
    /\ Cardinality(TopIndices(r_i - 1)) >= 2
    /\ Head(dq) = r_i - 1

\* every candle has positive prices
PositivePrices ==
    \A k \in 1..Len(candles) :
        candles[k].low > 0 /\ candles[k].close > 0 /\ candles[k].high > 0

\* the two-pass engine (detect_drawdowns, backtest, main's summary) has
\* reported; both engines have
TwoPassReturned == pc = "done" /\ d_err = "none" /\ b_err = "none"

BothReturned == TwoPassReturned /\ s_err = "none"

SameReport ==
    /\ num_trades = Len(trades)
    /\ s_capital = capital
    /\ wins = Len(winners)
    /\ losses = Len(losers)
    /\ max_dd = m_max_dd

\* whenever both engines run to their end their reports are the same
AgreeWhenBothReturn == BothReturned => SameReport

\* neither engine raises on candles with positive prices
NoErrorOnPositivePrices ==
    PositivePrices => (d_err = "none" /\ b_err = "none" /\ s_err = "none")

\* C19: whatever the two-pass engine reports on given inputs, run_strategy
\* reports too: the same number of trades, final capital, win and loss counts
\* and maximum drawdown, also when the capital falls below the minimum order
\* part-way.
C19_EnginesAgree == TwoPassReturned => (s_err = "none" /\ SameReport)

\* C20: on candles with positive prices (position_pct in (0, 100], stop loss
\* in (0, 100], take profit > 0, positive initial capital) every trade
\* stakes no more than the capital held before it and leaves a capital >= 0.
Solvent(log, k) ==
    /\ RLe(log[k].invested, CapitalBefore(log, k))
    /\ RGe(log[k].capital_after, R(0))

C20_CapitalNeverNegative ==
    PositivePrices =>
        /\ \A k \in 1..Len(trades) : Solvent(trades, k)
        /\ \A k \in 1..Len(s_log) : Solvent(s_log, k)
        /\ RGe(capital, R(0)) /\ RGe(s_capital, R(0))

\* on positive prices both engines staked the whole capital and lost on it
C20_Witness ==
    /\ PositivePrices
    /\ pos_pct = 100
    /\ \E k \in 1..Len(trades) :
          trades[k].invested = CapitalBefore(trades, k) /\ RLt(trades[k].profit, R(0))
    /\ \E k \in 1..Len(s_log) :
          s_log[k].invested = CapitalBefore(s_log, k) /\ RLt(s_log[k].profit, R(0))

\* C21: after every trade wins + losses = num_trades, in run_strategy's
\* counters and in main's winners and losers; a trade counts as a win exactly
\* when its profit is strictly positive, so a trade whose profit is exactly 0
\* (such as a timeout exit at the entry price) counts as a loss.
Gains(log) == {k \in 1..Len(log) : RGt(log[k].profit, R(0))}

Evens(log) == {k \in 1..Len(log) : log[k].profit = R(0)}

InSeq(t, sq) == \E k \in 1..Len(sq) : sq[k] = t

C21_WinLossAccounting ==
    /\ wins + losses = num_trades
    /\ num_trades = Len(s_log)
    /\ wins = Cardinality(Gains(s_log))
    /\ losses >= Cardinality(Evens(s_log))
    /\ Len(winners) + Len(losers) = Len(trades)
    /\ Len(winners) = Cardinality(Gains(trades))
    /\ \A k \in 1..Len(trades) :
          /\ InSeq(trades[k], winners) <=> RGt(trades[k].profit, R(0))
          /\ InSeq(trades[k], losers) <=> ~RGt(trades[k].profit, R(0))

\* the only trade of both engines is a timeout a bar after the entry, at the
\* entry price, with profit exactly 0, and it is counted as a loss
C21_Witness ==
    /\ pc = "done"
    /\ Len(trades) = 1 /\ Len(s_log) = 1
    /\ trades[1].exit_reason = "TIMEOUT" /\ s_log[1].exit_reason = "TIMEOUT"
    /\ Len(events) = 1 /\ events[1].exit_idx > events[1].idx
    /\ s_log[1].exit_idx > s_log[1].idx
    /\ trades[1].sell_price = trades[1].buy_price
    /\ s_log[1].sell_price = s_log[1].buy_price
    /\ trades[1].profit = R(0) /\ s_log[1].profit = R(0)
    /\ wins = 0 /\ losses = 1
    /\ Len(winners) = 0 /\ Len(losers) = 1
====
